---- MODULE Spec2Model ----
(***************************************************************************)
(* Model of autofactory's two mixin bases, ModelBase (modelBase.py) and    *)
(* VersionedBase (versionedBase.py).                                       *)
(*                                                                         *)
(* The program's state is the class hierarchy Python keeps: every class    *)
(* statement registers the new class in the __subclasses__() list of its   *)
(* base, in declaration order, and gives it its modelStrings or            *)
(* versionString.  Class 0 is the mixin base itself (ModelBase or          *)
(* VersionedBase); classes 1..nclasses are the declared subclasses.        *)
(* The four class methods are pure functions of that hierarchy; each is an *)
(* operator written after its code, and one action applies it and records  *)
(* what the caller gets back (a class, an instance, None or an exception). *)
(* The methods are modelled as called on declared classes: on a class      *)
(* inspect.isclass(cls) is true and the instance -> class normalisation is *)
(* the identity, and the mixin base itself carries no labels (modelStrings *)
(* and versionString are None there).                                      *)
(***************************************************************************)
EXTENDS Naturals, Sequences, FiniteSets, TLC

\* Largest number of subclasses declared below the mixin base.
MaxClasses == 4

\* The modelStrings lists a declared ModelBase subclass may carry
\* (test_unit_modelBase.py declares ["A","a"], ["B","b"], ["C","c"]).
ModelStringsChoices == {{"A", "a"}, {"B", "b"}}

\* Model strings a caller may look for; "D" is carried by no class.
SoughtModels == {"A", "a", "B", "D"}

\* The versionString a declared VersionedBase subclass may carry.
VersionStringChoices == {"1.0", "2.0"}

\* VersionedBase.versionString (versionedBase.py line 22) and the default
\* of newFromVersion's version argument: Python's None.
NoVersion == "None"

\* Versions a caller may ask for; "4.0" is carried by no class.
SoughtVersions == {"1.0", "2.0", "4.0", NoVersion}

VARIABLES
    nclasses,       \* number of declared subclasses
    base,           \* base[c]: the __base__ of declared class c
    subclasses,     \* subclasses[c]: c.__subclasses__(), in declaration order
    modelStrings,   \* modelStrings[c] of the ModelBase subclasses
    versionString,  \* versionString[c] of VersionedBase and its subclasses
    pc,             \* "idle", or "returned" when a call's outcome is held
    call,           \* the call made: method, cls and arguments
    outcome         \* what that call gave its caller

vars == <<nclasses, base, subclasses, modelStrings, versionString, pc, call, outcome>>

Classes == 0 .. nclasses

\* The classes the methods are called on: the declared subclasses.
Declared == 1 .. nclasses

----------------------------------------------------------------------------
(* What a method gives its caller.                                         *)

NoneResult == [kind |-> "None"]
ReturnClass(c) == [kind |-> "class", cls |-> c]
ReturnInstance(c) == [kind |-> "instance", cls |-> c]
\* NotImplementedError; its message names the class where the search stopped.
RaiseNotImplemented(c) == [kind |-> "NotImplementedError", cls |-> c]
RaiseTypeError == [kind |-> "TypeError"]

\* Python truthiness of a value that is a class or None ("if possible:").
Truthy(r) == r.kind # "None"

NoCall == [op |-> "none"]

----------------------------------------------------------------------------
(* ModelBase.findModel                                                     *)

RECURSIVE traverseModel(_, _)
RECURSIVE traverseSubs(_, _, _)

\* A plausible slip: the loop returns what the first subclass gave, found
\* or not (as findVersion's traverse does), and never tries the siblings.
traverseSubsFirstOnly(subs, i, soughtModel) ==
    IF i > Len(subs) THEN NoneResult
    ELSE traverseModel(subs[i], soughtModel)

\* The for loop of traverse, from the i-th subclass on.
traverseSubs(subs, i, soughtModel) ==
    IF i > Len(subs) THEN NoneResult
    ELSE LET possible == traverseModel(subs[i], soughtModel)
         IN  IF Truthy(possible) THEN possible
             ELSE traverseSubs(subs, i + 1, soughtModel)

traverseModel(searchMe, soughtModel) ==
    IF soughtModel \in modelStrings[searchMe] THEN ReturnClass(searchMe)
    ELSE traverseSubs(subclasses[searchMe], 1, soughtModel)

\* A plausible slip: a miss on a class without subclasses falls out of the
\* method (None) instead of raising.
findModelLeafNone(cls, observedModel, returnBase, returnLatest) ==
    IF observedModel \in modelStrings[cls] THEN ReturnClass(cls)
    ELSE IF Len(subclasses[cls]) >= 1
         THEN LET possible == traverseModel(cls, observedModel)
              IN  IF Truthy(possible) THEN possible
                  ELSE IF returnBase THEN ReturnClass(cls)
                       ELSE RaiseNotImplemented(cls)
         ELSE IF returnBase \/ returnLatest THEN ReturnClass(cls)
              ELSE NoneResult

\* A plausible change: the branch with subclasses honours returnLatest the
\* way the branch without subclasses does.
findModelLatestEverywhere(cls, observedModel, returnBase, returnLatest) ==
    IF observedModel \in modelStrings[cls] THEN ReturnClass(cls)
    ELSE IF Len(subclasses[cls]) >= 1
         THEN LET possible == traverseModel(cls, observedModel)
              IN  IF Truthy(possible) THEN possible
                  ELSE IF returnBase \/ returnLatest THEN ReturnClass(cls)
                       ELSE RaiseNotImplemented(cls)
         ELSE IF returnBase \/ returnLatest THEN ReturnClass(cls)
              ELSE RaiseNotImplemented(cls)

findModel(cls, observedModel, returnBase, returnLatest) ==
    IF observedModel \in modelStrings[cls] THEN ReturnClass(cls)
    ELSE IF Len(subclasses[cls]) >= 1
         THEN LET possible == traverseModel(cls, observedModel)
              IN  IF Truthy(possible) THEN possible
                  ELSE IF returnBase THEN ReturnClass(cls)
                       ELSE RaiseNotImplemented(cls)
         ELSE IF subclasses[cls] = <<>>
              THEN IF returnBase \/ returnLatest THEN ReturnClass(cls)
                   ELSE RaiseNotImplemented(cls)
              ELSE NoneResult

----------------------------------------------------------------------------
(* VersionedBase.newFromVersion                                            *)

\* A plausible slip: returnDefault constructs the class the scan stopped at
\* (scan written for cls).
scanLoopDefaultIsScan(cls, scan, version, returnDefault, returnLast) ==
    LET RECURSIVE loop(_)
        loop(s) ==
            IF versionString[s] = version THEN ReturnInstance(s)
            ELSE IF Len(subclasses[s]) = 1 THEN loop(subclasses[s][1])
            ELSE IF returnDefault THEN ReturnInstance(s)
            ELSE IF returnLast THEN ReturnInstance(s)
            ELSE RaiseNotImplemented(s)
    IN  loop(scan)

\* A plausible slip: the two fallback tests in the other order, so that
\* returnLast wins over returnDefault (as returnLatest does in findVersion).
scanLoopLastFirst(cls, scan, version, returnDefault, returnLast) ==
    LET RECURSIVE loop(_)
        loop(s) ==
            IF versionString[s] = version THEN ReturnInstance(s)
            ELSE IF Len(subclasses[s]) = 1 THEN loop(subclasses[s][1])
            ELSE IF returnLast THEN ReturnInstance(s)
            ELSE IF returnDefault THEN ReturnInstance(cls)
            ELSE RaiseNotImplemented(s)
    IN  loop(scan)

\* The while loop of newFromVersion, entered with the class scan.
RECURSIVE scanLoop(_, _, _, _, _)
scanLoop(cls, scan, version, returnDefault, returnLast) ==
    IF versionString[scan] = version THEN ReturnInstance(scan)
    ELSE IF Len(subclasses[scan]) = 1
         THEN scanLoop(cls, subclasses[scan][1], version, returnDefault, returnLast)
         ELSE IF returnDefault THEN ReturnInstance(cls)
              ELSE IF returnLast THEN ReturnInstance(scan)
              ELSE RaiseNotImplemented(scan)

\* A plausible slip: ">= 1" for "== 1", so a class with several subclasses
\* is walked through its first one.
newFromVersionFirstBranch(cls, version, returnDefault, returnLast) ==
    IF versionString[cls] = version THEN ReturnInstance(cls)
    ELSE IF Len(subclasses[cls]) >= 1
         THEN scanLoop(cls, subclasses[cls][1], version, returnDefault, returnLast)
         ELSE IF returnDefault THEN ReturnInstance(cls)
              ELSE IF returnLast THEN ReturnInstance(cls)
              ELSE RaiseNotImplemented(cls)

newFromVersion(cls, version, returnDefault, returnLast) ==
    IF versionString[cls] = version THEN ReturnInstance(cls)
    ELSE IF Len(subclasses[cls]) = 1
         THEN scanLoop(cls, subclasses[cls][1], version, returnDefault, returnLast)
         ELSE IF subclasses[cls] = <<>>
              THEN IF returnDefault THEN ReturnInstance(cls)
                   ELSE IF returnLast THEN ReturnInstance(cls)
                   ELSE RaiseNotImplemented(cls)
              ELSE RaiseTypeError

----------------------------------------------------------------------------
(* VersionedBase.findVersion                                               *)

\* A plausible slip: the walk goes down the last subclass, [-1] for [0].
traverseVersionLastChild(searchMe, soughtVersion, returnLatest) ==
    LET RECURSIVE walk(_)
        walk(s) ==
            IF soughtVersion = versionString[s] THEN ReturnClass(s)
            ELSE IF Len(subclasses[s]) > 0
                 THEN walk(subclasses[s][Len(subclasses[s])])
                 ELSE IF returnLatest THEN ReturnClass(s) ELSE NoneResult
    IN  walk(searchMe)

\* What the docstring describes ("doesn't have returnLatest working yet"):
\* the walk ignores returnLatest.
traverseVersionNoLatest(searchMe, soughtVersion, returnLatest) ==
    LET RECURSIVE walk(_)
        walk(s) ==
            IF soughtVersion = versionString[s] THEN ReturnClass(s)
            ELSE IF Len(subclasses[s]) > 0 THEN walk(subclasses[s][1])
                 ELSE NoneResult
    IN  walk(searchMe)

\* traverse closes over findVersion's returnLatest; here it is a parameter.
RECURSIVE traverseVersion(_, _, _)
traverseVersion(searchMe, soughtVersion, returnLatest) ==
    IF soughtVersion = versionString[searchMe] THEN ReturnClass(searchMe)
    ELSE IF Len(subclasses[searchMe]) > 0
         THEN traverseVersion(subclasses[searchMe][1], soughtVersion, returnLatest)
         ELSE IF returnLatest THEN ReturnClass(searchMe)
              ELSE NoneResult

findVersion(cls, version, returnBase, returnLatest) ==
    IF version = versionString[cls] THEN ReturnClass(cls)
    ELSE IF Len(subclasses[cls]) > 0
         THEN LET possible == traverseVersion(cls, version, returnLatest)
              IN  IF Truthy(possible) THEN possible
                  ELSE IF returnBase THEN ReturnClass(cls)
                       ELSE RaiseNotImplemented(cls)
         ELSE IF returnBase \/ returnLatest THEN ReturnClass(cls)
              ELSE RaiseNotImplemented(cls)

----------------------------------------------------------------------------
(* VersionedBase.findPreviousVersion                                       *)

\* hasattr(c.__base__, "versionString").  The __base__ of VersionedBase
\* itself (class 0, outside DOMAIN base) is object, which has none.
BaseHasVersionString(c) ==
    /\ c \in DOMAIN base
    /\ base[c] \in DOMAIN versionString

RECURSIVE climb(_, _)
climb(b, soughtVersion) ==
    IF versionString[b] = soughtVersion THEN ReturnClass(b)
    ELSE IF BaseHasVersionString(b) THEN climb(base[b], soughtVersion)
         ELSE NoneResult

\* A plausible slip: the climb starts at cls itself, not at its __base__.
findPreviousVersionFromSelf(cls, previous) ==
    IF BaseHasVersionString(cls) THEN climb(cls, previous)
    ELSE NoneResult

findPreviousVersion(cls, previous) ==
    IF BaseHasVersionString(cls) THEN climb(base[cls], previous)
    ELSE NoneResult

----------------------------------------------------------------------------
(* State machine                                                           *)

Init ==
    /\ nclasses = 0
    /\ base = <<>>
    /\ subclasses = (0 :> <<>>)
    /\ modelStrings = <<>>
    /\ versionString = (0 :> NoVersion)
    /\ pc = "idle"
    /\ call = NoCall
    /\ outcome = NoneResult

\* What every class statement does to the hierarchy: class new(b).
Register(b) ==
    /\ nclasses' = nclasses + 1
    /\ base' = base @@ ((nclasses + 1) :> b)
    /\ subclasses' = [subclasses EXCEPT ![b] = Append(@, nclasses + 1)]
                        @@ ((nclasses + 1) :> <<>>)

\* class X(b): modelStrings = ms      (b is ModelBase or a subclass of it)
DeclareModel ==
    /\ pc = "idle"
    /\ nclasses < MaxClasses
    /\ \E b \in Classes, ms \in ModelStringsChoices :
          /\ Register(b)
          /\ modelStrings' = modelStrings @@ ((nclasses + 1) :> ms)
    /\ UNCHANGED <<versionString, pc, call, outcome>>

\* cls.findModel(observedModel, returnBase, returnLatest)
FindModel ==
    /\ pc = "idle"
    /\ \E cls \in Declared, observedModel \in SoughtModels,
          returnBase \in BOOLEAN, returnLatest \in BOOLEAN :
          /\ call' = [op |-> "findModel", cls |-> cls, sought |-> observedModel,
                      returnBase |-> returnBase, returnLatest |-> returnLatest]
          /\ outcome' = findModel(cls, observedModel, returnBase, returnLatest)
    /\ pc' = "returned"
    /\ UNCHANGED <<nclasses, base, subclasses, modelStrings, versionString>>

\* The caller takes the outcome and goes on.
Resume ==
    /\ pc = "returned"
    /\ pc' = "idle"
    /\ call' = NoCall
    /\ outcome' = NoneResult
    /\ UNCHANGED <<nclasses, base, subclasses, modelStrings, versionString>>

NextModel == DeclareModel \/ FindModel \/ Resume

SpecModel == Init /\ [][NextModel]_vars

\* class X(b): versionString = v   (b is VersionedBase or a subclass of it)
DeclareVersioned ==
    /\ pc = "idle"
    /\ nclasses < MaxClasses
    /\ \E b \in Classes, v \in VersionStringChoices :
          /\ Register(b)
          /\ versionString' = versionString @@ ((nclasses + 1) :> v)
    /\ UNCHANGED <<modelStrings, pc, call, outcome>>

\* cls.newFromVersion(version=version, returnDefault=..., returnLast=...)
NewFromVersion ==
    /\ pc = "idle"
    /\ \E cls \in Declared, version \in SoughtVersions,
          returnDefault \in BOOLEAN, returnLast \in BOOLEAN :
          /\ call' = [op |-> "newFromVersion", cls |-> cls, sought |-> version,
                      returnDefault |-> returnDefault, returnLast |-> returnLast]
          /\ outcome' = newFromVersion(cls, version, returnDefault, returnLast)
    /\ pc' = "returned"
    /\ UNCHANGED <<nclasses, base, subclasses, modelStrings, versionString>>

\* cls.findVersion(version, returnBase, returnLatest)
FindVersion ==
    /\ pc = "idle"
    /\ \E cls \in Declared, version \in SoughtVersions,
          returnBase \in BOOLEAN, returnLatest \in BOOLEAN :
          /\ call' = [op |-> "findVersion", cls |-> cls, sought |-> version,
                      returnBase |-> returnBase, returnLatest |-> returnLatest]
          /\ outcome' = findVersion(cls, version, returnBase, returnLatest)
    /\ pc' = "returned"
    /\ UNCHANGED <<nclasses, base, subclasses, modelStrings, versionString>>

\* cls.findPreviousVersion(previous)
FindPreviousVersion ==
    /\ pc = "idle"
    /\ \E cls \in Declared, previous \in SoughtVersions :
          /\ call' = [op |-> "findPreviousVersion", cls |-> cls, sought |-> previous]
          /\ outcome' = findPreviousVersion(cls, previous)
    /\ pc' = "returned"
    /\ UNCHANGED <<nclasses, base, subclasses, modelStrings, versionString>>

NextVersion ==
    DeclareVersioned \/ NewFromVersion \/ FindVersion \/ FindPreviousVersion \/ Resume

SpecVersion == Init /\ [][NextVersion]_vars

----------------------------------------------------------------------------
(* Vocabulary of the properties, defined from the hierarchy alone.         *)

\* c is start or below it, by __base__ links.
RECURSIVE InSubtree(_, _)
InSubtree(c, start) ==
    \/ c = start
    \/ c \in DOMAIN base /\ InSubtree(base[c], start)

\* The subtree of c in pre-order over declaration-ordered subclasses.
RECURSIVE PreOrder(_)
PreOrder(c) ==
    LET subs == subclasses[c]
        RECURSIVE from(_)
        from(i) == IF i > Len(subs) THEN <<>> ELSE PreOrder(subs[i]) \o from(i + 1)
    IN  <<c>> \o from(1)

\* c, c's first subclass, that one's first subclass, ...
RECURSIVE FirstChildPath(_)
FirstChildPath(c) ==
    IF subclasses[c] = <<>> THEN <<c>>
    ELSE <<c>> \o FirstChildPath(subclasses[c][1])

\* The strict ancestors of c that carry a versionString, nearest first.
RECURSIVE AncestorPath(_)
AncestorPath(c) ==
    IF c \in DOMAIN base THEN <<base[c]>> \o AncestorPath(base[c]) ELSE <<>>

\* No class at or below start has more than one subclass.
Linear(start) ==
    \A c \in Classes : InSubtree(c, start) => Len(subclasses[c]) <= 1

\* Positions of seq whose class carries version v / model string l.
VersionHits(seq, v) == {i \in 1 .. Len(seq) : versionString[seq[i]] = v}
ModelHits(seq, l) == {i \in 1 .. Len(seq) : l \in modelStrings[seq[i]]}
First(hits) == CHOOSE i \in hits : \A j \in hits : i <= j
Last(seq) == seq[Len(seq)]
Range(seq) == {seq[i] : i \in 1 .. Len(seq)}

Returned(op) == pc = "returned" /\ call.op = op

----------------------------------------------------------------------------
(* ModelBase.findModel                                                     *)

\* C1: findModel without fallback flags returns a class carrying the sought
\* string iff some class at or below start carries it; the class returned is
\* the first such class in pre-order over declaration-ordered subclasses,
\* and with none the call raises NotImplementedError (NotFound).
C1_FindModelFirstInPreOrder ==
    (Returned("findModel") /\ ~call.returnBase /\ ~call.returnLatest) =>
        LET po == PreOrder(call.cls)
            hits == ModelHits(po, call.sought)
            carriers == {c \in 1 .. nclasses :
                            InSubtree(c, call.cls) /\ call.sought \in modelStrings[c]}
        IN  /\ (hits = {}) <=> (carriers = {})
            /\ IF carriers # {}
               THEN outcome = ReturnClass(po[First(hits)])
               ELSE outcome.kind = "NotImplementedError"

\* The tie-break scenario: start does not carry the string, its first two
\* subclasses both do, and the first one is returned.
C1_Witness ==
    /\ Returned("findModel") /\ ~call.returnBase /\ ~call.returnLatest
    /\ Len(subclasses[call.cls]) >= 2
    /\ call.sought \notin modelStrings[call.cls]
    /\ call.sought \in modelStrings[subclasses[call.cls][1]]
    /\ call.sought \in modelStrings[subclasses[call.cls][2]]
    /\ outcome = ReturnClass(subclasses[call.cls][1])

\* C7: when no class at or below start carries the sought string, findModel
\* with neither flag raises NotImplementedError, with returnBase it returns
\* start; findModel never returns None.
C7_FindModelMiss ==
    Returned("findModel") =>
        /\ outcome.kind # "None"
        /\ (\A c \in 1 .. nclasses :
                InSubtree(c, call.cls) => call.sought \notin modelStrings[c]) =>
              /\ (~call.returnBase /\ ~call.returnLatest)
                    => outcome.kind = "NotImplementedError"
              /\ call.returnBase => outcome = ReturnClass(call.cls)

\* A miss without flags on a class without subclasses raises.
C7_Witness ==
    /\ Returned("findModel") /\ ~call.returnBase /\ ~call.returnLatest
    /\ subclasses[call.cls] = <<>>
    /\ call.sought \notin modelStrings[call.cls]
    /\ outcome.kind = "NotImplementedError"

\* C8 as stated: findModel with returnLatest alone has the outcome findModel
\* has with returnBase alone; on a miss it returns start.
C8_LatestSameAsBase ==
    (Returned("findModel") /\ ~call.returnBase /\ call.returnLatest) =>
        LET carriers == {c \in 1 .. nclasses :
                            InSubtree(c, call.cls) /\ call.sought \in modelStrings[c]}
        IN  /\ outcome = findModel(call.cls, call.sought, TRUE, FALSE)
            /\ carriers = {} => outcome = ReturnClass(call.cls)

\* C8 amended: returnLatest alone acts as returnBase alone when a class at or
\* below start carries the string (both return the first in pre-order) and
\* when start has no subclasses (both return start); on a miss below a start
\* that has subclasses, returnLatest alone raises NotImplementedError where
\* returnBase alone returns start.
C8_LatestOnlyOnLeaf ==
    (Returned("findModel") /\ (call.returnBase # call.returnLatest)) =>
        LET po == PreOrder(call.cls)
            hits == ModelHits(po, call.sought)
        IN  IF hits # {} THEN outcome = ReturnClass(po[First(hits)])
            ELSE IF call.returnBase \/ subclasses[call.cls] = <<>>
                 THEN outcome = ReturnClass(call.cls)
                 ELSE outcome = RaiseNotImplemented(call.cls)

\* returnLatest alone, a miss, start has subclasses: the call raises.
C8_Witness ==
    /\ Returned("findModel") /\ ~call.returnBase /\ call.returnLatest
    /\ subclasses[call.cls] # <<>>
    /\ ModelHits(PreOrder(call.cls), call.sought) = {}
    /\ outcome = RaiseNotImplemented(call.cls)

----------------------------------------------------------------------------
(* VersionedBase.newFromVersion                                            *)

\* C2: on a lineage where no class at or below start has more than one
\* subclass, newFromVersion with at most one flag constructs the first class
\* at or below start carrying the version; without one, start under
\* returnDefault, the deepest class under returnLast, and nothing
\* (NotImplementedError) under neither.
C2_NewFromVersionLinear ==
    (/\ Returned("newFromVersion")
     /\ Linear(call.cls)
     /\ ~(call.returnDefault /\ call.returnLast)) =>
        LET path == FirstChildPath(call.cls)
            hits == VersionHits(path, call.sought)
        IN  IF hits # {} THEN outcome = ReturnInstance(path[First(hits)])
            ELSE IF call.returnDefault THEN outcome = ReturnInstance(call.cls)
            ELSE IF call.returnLast THEN outcome = ReturnInstance(Last(path))
            ELSE outcome.kind = "NotImplementedError"

\* A lineage of three below start, no class carries the version, returnLast:
\* the deepest class is constructed.
C2_Witness ==
    /\ Returned("newFromVersion") /\ Linear(call.cls)
    /\ ~call.returnDefault /\ call.returnLast
    /\ Len(FirstChildPath(call.cls)) >= 3
    /\ VersionHits(FirstChildPath(call.cls), call.sought) = {}
    /\ outcome = ReturnInstance(Last(FirstChildPath(call.cls)))

\* The forward walk from c, before any class carrying the version, comes to
\* a class with more than one subclass.
RECURSIVE WalkMeetsBranch(_, _)
WalkMeetsBranch(c, v) ==
    /\ versionString[c] # v
    /\ \/ Len(subclasses[c]) > 1
       \/ Len(subclasses[c]) = 1 /\ WalkMeetsBranch(subclasses[c][1], v)

\* C3: when newFromVersion's forward walk comes to a class (start or one it
\* descended to) with more than one subclass, the call raises TypeError
\* (AmbiguousHierarchy): no NotImplementedError, and no instance whatever the
\* flags.
C3_BranchOnWalkIsAmbiguous ==
    (Returned("newFromVersion") /\ WalkMeetsBranch(call.cls, call.sought)) =>
        outcome = RaiseTypeError

\* C4 as stated: newFromVersion on a start with two or more subclasses
\* raises TypeError for every version and every flag combination.
C4_BranchedStartAlwaysAmbiguous ==
    (Returned("newFromVersion") /\ Len(subclasses[call.cls]) >= 2) =>
        outcome = RaiseTypeError

\* C4 amended: newFromVersion on a start with two or more subclasses raises
\* TypeError for every flag combination and every version other than
\* start's own versionString; asked for its own versionString, start is
\* constructed.
C4_BranchedStartAmbiguousUnlessMatch ==
    (Returned("newFromVersion") /\ Len(subclasses[call.cls]) >= 2) =>
        IF versionString[call.cls] = call.sought
        THEN outcome = ReturnInstance(call.cls)
        ELSE outcome = RaiseTypeError

\* A start with two subclasses, one of them carrying the version, and a
\* fallback flag set: TypeError all the same.
C4_Witness ==
    /\ Returned("newFromVersion") /\ Len(subclasses[call.cls]) >= 2
    /\ call.returnLast
    /\ versionString[call.cls] # call.sought
    /\ versionString[subclasses[call.cls][1]] = call.sought
    /\ outcome = RaiseTypeError

----------------------------------------------------------------------------
(* VersionedBase.findVersion                                               *)

----------------------------------------------------------------------------
(* VersionedBase.findPreviousVersion                                       *)

\* C9: findPreviousVersion returns the nearest strict ancestor of start that
\* carries the sought version, never start itself, and None (no exception)
\* when no ancestor carries it.
C9_FindPreviousNearestAncestor ==
    Returned("findPreviousVersion") =>
        LET up == AncestorPath(call.cls)
            hits == VersionHits(up, call.sought)
        IN  /\ IF hits # {} THEN outcome = ReturnClass(up[First(hits)])
               ELSE outcome = NoneResult
            /\ outcome.kind = "class" => outcome.cls # call.cls

\* start carries the sought version itself, its parent does not, two
\* ancestors further up do: the nearer of the two is returned.
C9_Witness ==
    /\ Returned("findPreviousVersion")
    /\ versionString[call.cls] = call.sought
    /\ outcome.kind = "class"
    /\ outcome.cls # base[call.cls]
    /\ outcome.cls \in DOMAIN base
    /\ versionString[base[outcome.cls]] = call.sought

----------------------------------------------------------------------------
(* Both flags at once                                                      *)

====
